---- MODULE Spec2Model ----
(***************************************************************************)
(* FlowState: the day-record store (local storage with an optional         *)
(* Supabase mirror), the seeding done at module load, and the Dashboard /  *)
(* chat handlers that call the store.                                      *)
(*                                                                         *)
(* JavaScript values are modelled as follows.                              *)
(*   - an object literal is a function from field names to values, {} is   *)
(*     the function with the empty domain (<<>>);                          *)
(*   - null is the distinguished value Null;                               *)
(*   - a string is a string, concatenated with \o;                         *)
(*   - a calendar date (the ISO string of todayISO) is a day number.       *)
(***************************************************************************)
EXTENDS Integers, Sequences, FiniteSets, TLC

\* ---------------------------------------------------------------- bounds
MaxDay == 2
MaxCalls == 3

Dates == 1..MaxDay

\* ------------------------------------------------------------- JS values
Null == [jsnull |-> TRUE]
EmptyObj == <<>>

\* { ...a, ...b }
Merge(a, b) ==
  [f \in (DOMAIN a) \cup (DOMAIN b) |-> IF f \in DOMAIN b THEN b[f] ELSE a[f]]

\* obj[k] || {}   for an object whose values are objects
GetOrEmpty(days, k) == IF k \in DOMAIN days THEN days[k] ELSE EmptyObj

\* obj[k] || null
GetOrNull(days, k) == IF k \in DOMAIN days THEN days[k] ELSE Null

\* obj[k] = v
Put(days, k, v) ==
  [d \in (DOMAIN days) \cup {k} |-> IF d = k THEN v ELSE days[d]]

\* values JSON.parse can return for the text under STORAGE_KEY
JObj(days) == [t |-> "object", days |-> days]
JArr(days) == [t |-> "array", days |-> days]
JNull == [t |-> "null"]
JNum == [t |-> "number"]

\* what localStorage.getItem(STORAGE_KEY) can hold
RawMissing == [kind |-> "missing"]
RawEmpty == [kind |-> "empty"]
RawGarbage == [kind |-> "garbage"]
RawJson(v) == [kind |-> "json", val |-> v]

\* JSON.stringify followed by JSON.parse: the named (non-index) properties
\* of an array are not serialised
JSONRoundTrip(v) == IF v.t = "array" THEN JArr(<<>>) ELSE v

\* ---------------------------------------------------------- configuration
DEFAULT_GOALS ==
  [wakeGoal |-> "07:00", workoutGoal |-> "19:00",
   lunchTime |-> "13:30", dinnerTime |-> "21:00"]

UpperCaseLetters == "ABCDEFGHIJKLMNOPQRSTUVWXYZ"
LowerCaseLetters == "abcdefghijklmnopqrstuvwxyz"

\* the character at (1-based) position i of string s, "" outside of it
CharAt(s, i) == IF i \in 1..Len(s) THEN SubSeq(s, i, i) ELSE ""

LowerChar(c) ==
  IF \E i \in 1..26 : CharAt(UpperCaseLetters, i) = c
  THEN CharAt(LowerCaseLetters,
              CHOOSE i \in 1..26 : CharAt(UpperCaseLetters, i) = c)
  ELSE c

RECURSIVE toLowerCase(_)
toLowerCase(s) ==
  IF s = "" THEN "" ELSE LowerChar(Head(s)) \o toLowerCase(Tail(s))

\* String.prototype.includes
includes(s, k) ==
  \E i \in 1..(Len(s) - Len(k) + 1) : SubSeq(s, i, i + Len(k) - 1) = k

EnvBackends == {"", "local", "supabase", "SUPABASE"}
EnvStrings == {"", "set"}
Envs ==
  [VITE_BACKEND : EnvBackends, VITE_SUPABASE_URL : EnvStrings,
   VITE_SUPABASE_KEY : EnvStrings]

VARIABLES
  env,             \* import.meta.env, fixed at build time
  consts,          \* the module constants BACKEND, SUPABASE_URL, ..., supabase
  localStorage,    \* the item stored under STORAGE_KEY
  remote,          \* the rows of table flowstate_days: date -> payload
  today,           \* the day todayISO() returns
  net,             \* TRUE once a request was sent to the remote backend
  seed,            \* the seedIfEmpty() started at module load
  last,            \* the store call that returned last
  prev,            \* the store call that returned before it
  calls,           \* number of store calls made by the caller
  active,          \* App: the view shown
  aiProcessedData, \* App: what the Dashboard chat extracted last
  dash,            \* Dashboard: date, data, all, loading
  chat,            \* the mounted AIChatbot: isProcessing
  tasks,           \* the async handlers in flight, oldest first
  events,          \* number of events so far: user events and failed requests
  ev,              \* the handler that finished in the last step
  input,           \* the text given to simulateAIProcessing
  result,          \* what the last run of simulateAIProcessing resolved to
  earlier,         \* what the run before it resolved to
  isTouring,       \* App: the tour overlay is open
  tourStep,        \* App: index of the tour step shown
  chatbot,         \* the state of the AIChatbot of the AI Assistant view
  pending          \* its processMessage calls waiting for the timer

storeVars == <<env, consts, localStorage, remote, today, net, seed, last, prev, calls>>
uiVars == <<active, aiProcessedData, dash, chat, tasks, events, ev>>
extractVars == <<input, result, earlier>>
tourVars == <<isTouring, tourStep>>
botVars == <<chatbot, pending>>
sideVars == <<extractVars, tourVars, botVars>>
vars == <<env, consts, localStorage, remote, today, net, seed, last, prev, calls,
          active, aiProcessedData, dash, chat, tasks, events, ev,
          input, result, earlier, isTouring, tourStep, chatbot, pending>>

Client == [client |-> TRUE]

\* a client created without testing the key
createSupabase_NoKeyTest(backend, url, key) ==
  IF backend = "supabase" /\ url # "" THEN Client ELSE Null

\* const supabase = (BACKEND === 'supabase' && SUPABASE_URL && SUPABASE_KEY)
\*                  ? createClient(SUPABASE_URL, SUPABASE_KEY) : null
createSupabase(backend, url, key) ==
  IF backend = "supabase" /\ url # "" /\ key # "" THEN Client ELSE Null

\* the constants evaluated when the module is loaded
ModuleConsts(e) ==
  LET backend ==
        toLowerCase(IF e.VITE_BACKEND = "" THEN "local" ELSE e.VITE_BACKEND)
  IN [BACKEND |-> backend,
      SUPABASE_URL |-> e.VITE_SUPABASE_URL,
      SUPABASE_KEY |-> e.VITE_SUPABASE_KEY,
      supabase |-> createSupabase(backend, e.VITE_SUPABASE_URL,
                                  e.VITE_SUPABASE_KEY)]

BACKEND == consts.BACKEND
SUPABASE_URL == consts.SUPABASE_URL
SUPABASE_KEY == consts.SUPABASE_KEY
supabase == consts.supabase

\* the test  BACKEND === "supabase" && supabase  of the three adapters
UseRemote == BACKEND = "supabase" /\ supabase # Null

todayISO == today

\* ------------------------------------------------- local storage helpers
\* The result of a store function: the value returned (or threw = TRUE when
\* it raised), the storage contents it leaves, and whether it sent a request.
Result(ret, ls, rem, sent) ==
  [threw |-> FALSE, ret |-> ret, ls |-> ls, remote |-> rem, sent |-> sent]
Throw(ls, rem, sent) ==
  [threw |-> TRUE, ret |-> Null, ls |-> ls, remote |-> rem, sent |-> sent]

loadAllDaysLocal(ls) ==
  CASE ls.kind = "missing" -> JObj(<<>>)
    [] ls.kind = "empty" -> JObj(<<>>)
    [] ls.kind = "garbage" -> JObj(<<>>)
    [] OTHER -> ls.val

saveAllDaysLocal(obj) == RawJson(JSONRoundTrip(obj))

\* an upsert that saves a table holding the upserted date only
upsertDayLocal_OnlyDate(ls, rem, date, data, sent) ==
  LET all == loadAllDaysLocal(ls) IN
  CASE all.t = "null" -> Throw(ls, rem, sent)
    [] all.t = "number" -> Throw(ls, rem, sent)
    [] OTHER ->
       LET merged == Merge(GetOrEmpty(all.days, date), data)
           all2 == [all EXCEPT !.days = Put(<<>>, date, merged)]
       IN Result(merged, saveAllDaysLocal(all2), rem, sent)

\* an upsert that stores the given fields without those of the record
upsertDayLocal_NoMerge(ls, rem, date, data, sent) ==
  LET all == loadAllDaysLocal(ls) IN
  CASE all.t = "null" -> Throw(ls, rem, sent)
    [] all.t = "number" -> Throw(ls, rem, sent)
    [] OTHER ->
       LET all2 == [all EXCEPT !.days = Put(@, date, data)]
       IN Result(data, saveAllDaysLocal(all2), rem, sent)

upsertDayLocal(ls, rem, date, data, sent) ==
  LET all == loadAllDaysLocal(ls) IN
  CASE all.t = "null" -> Throw(ls, rem, sent)
    [] all.t = "number" -> Throw(ls, rem, sent)
    [] OTHER ->
       LET merged == Merge(GetOrEmpty(all.days, date), data)
           all2 == [all EXCEPT !.days = Put(@, date, merged)]
       IN Result(merged, saveAllDaysLocal(all2), rem, sent)

readDayLocal(ls, rem, date, sent) ==
  LET all == loadAllDaysLocal(ls) IN
  CASE all.t = "null" -> Throw(ls, rem, sent)
    [] all.t = "number" -> Result(Null, ls, rem, sent)
    [] OTHER -> Result(GetOrNull(all.days, date), ls, rem, sent)

\* ------------------------------------------------------ Supabase adapter
\* ok: the remote request succeeds (no error); otherwise the catch runs.
loadAllDays(ls, rem, ok) ==
  IF UseRemote
  THEN IF ok THEN Result(JObj(rem), ls, rem, TRUE)
       ELSE Result(loadAllDaysLocal(ls), ls, rem, TRUE)
  ELSE Result(loadAllDaysLocal(ls), ls, rem, FALSE)

\* an upsertDay that mirrors a successful remote write into local storage
upsertDay_WriteThrough(ls, rem, date, data, ok) ==
  IF UseRemote
  THEN IF ok
       THEN Result(data, upsertDayLocal(ls, rem, date, data, TRUE).ls,
                   Put(rem, date, data), TRUE)
       ELSE upsertDayLocal(ls, rem, date, data, TRUE)
  ELSE upsertDayLocal(ls, rem, date, data, FALSE)

upsertDay(ls, rem, date, data, ok) ==
  IF UseRemote
  THEN IF ok THEN Result(data, ls, Put(rem, date, data), TRUE)
       ELSE upsertDayLocal(ls, rem, date, data, TRUE)
  ELSE upsertDayLocal(ls, rem, date, data, FALSE)

\* a catch that reports "not found" instead of reading local storage
readDay_NoFallback(ls, rem, date, ok) ==
  IF UseRemote
  THEN IF ok THEN Result(GetOrNull(rem, date), ls, rem, TRUE)
       ELSE Result(Null, ls, rem, TRUE)
  ELSE readDayLocal(ls, rem, date, FALSE)

readDay(ls, rem, date, ok) ==
  IF UseRemote
  THEN IF ok THEN Result(GetOrNull(rem, date), ls, rem, TRUE)
       ELSE readDayLocal(ls, rem, date, TRUE)
  ELSE readDayLocal(ls, rem, date, FALSE)

\* ------------------------------------------------------------------ seed
SeedRecord ==
  [wakeTime |-> "10:00",
   lunch |-> [time |-> "13:30", details |-> "veg + one vegetable + dal"],
   dinner |-> [time |-> "21:00", details |-> "grilled protein (chicken or fish)"],
   workout |-> [time |-> "19:00", status |-> "skipped"],
   notes |-> "Kickoff day. Establishing routine and dashboard.",
   goals |-> DEFAULT_GOALS]

\* Object.keys(all).length === 0 ; Object.keys(null) raises a TypeError
KeysEmpty(all) ==
  CASE all.t = "object" -> DOMAIN all.days = {}
    [] OTHER -> TRUE

\* -------------------------------------------------------- text extractor
PARA_CATEGORIES ==
  [PROJECTS |-> "Projects", AREAS |-> "Areas",
   RESOURCES |-> "Resources", ARCHIVES |-> "Archives"]

\* paraCategory: null  (a string-valued field that holds no string)
NullString == "<null>"

\* String.prototype.match found nothing (a match is never the empty string)
NoMatch == ""

IsDigit(c) == c # "" /\ includes("0123456789", c)
IsSpace(c) == c \in {" ", "\t", "\n"}

\* length of the match of  \d{1,2}:\d{2}  at position i, 0 when none
MatchColon(s, i) ==
  IF /\ IsDigit(CharAt(s, i)) /\ IsDigit(CharAt(s, i + 1))
     /\ CharAt(s, i + 2) = ":"
     /\ IsDigit(CharAt(s, i + 3)) /\ IsDigit(CharAt(s, i + 4))
  THEN 5
  ELSE IF /\ IsDigit(CharAt(s, i)) /\ CharAt(s, i + 1) = ":"
          /\ IsDigit(CharAt(s, i + 2)) /\ IsDigit(CharAt(s, i + 3))
  THEN 4
  ELSE 0

\* length of the longest run of white space starting at position i
RECURSIVE SpacesFrom(_, _)
SpacesFrom(s, i) ==
  IF IsSpace(CharAt(s, i)) THEN 1 + SpacesFrom(s, i + 1) ELSE 0

\* length of the match of  \d{1,2}\s*am  (or pm) at position i under the
\* i flag, 0 when none; two digits are tried before one
MatchMeridiem(s, i, suffix) ==
  LET tail(n) ==
        LET k == SpacesFrom(s, i + n)
        IN IF toLowerCase(CharAt(s, i + n + k) \o CharAt(s, i + n + k + 1))
              = suffix
           THEN n + k + 2 ELSE 0
  IN IF /\ IsDigit(CharAt(s, i)) /\ IsDigit(CharAt(s, i + 1))
        /\ tail(2) > 0
     THEN tail(2)
     ELSE IF IsDigit(CharAt(s, i)) THEN tail(1) ELSE 0

\* the alternatives of /(\d{1,2}:\d{2}|\d{1,2}\s*am|\d{1,2}\s*pm)/i in order
MatchAt(s, i) ==
  IF MatchColon(s, i) > 0 THEN MatchColon(s, i)
  ELSE IF MatchMeridiem(s, i, "am") > 0 THEN MatchMeridiem(s, i, "am")
  ELSE MatchMeridiem(s, i, "pm")

\* text.match(...)[1]: the leftmost match, NoMatch when match returns null
timeMatch(text) ==
  LET starts == {i \in 1..Len(text) : MatchAt(text, i) > 0}
  IN IF starts = {} THEN NoMatch
     ELSE LET i == CHOOSE j \in starts : \A k \in starts : j <= k
          IN SubSeq(text, i, i + MatchAt(text, i) - 1)

taskKeywords == <<"finish", "complete", "start", "work on", "prepare">>

responses ==
  <<"I've analyzed your input and organized the information. Let me break down what I found:",
    "Great! I've processed your message and extracted key information for your dashboard.",
    "Thanks for sharing that with me! Here's how I've organized what you told me:",
    "I've captured the important details and structured them for your Life OS.">>

\* const extractedData = { tasks: [], habits: {}, mood: "neutral", ... }
NewExtractedData ==
  [tasks |-> <<>>, habits |-> EmptyObj, mood |-> "neutral",
   insights |-> <<>>, paraCategory |-> NullString, scheduledItems |-> <<>>]

\* a wake rule that does not test the keywords
wakeRule_NoKeyword(text, lowerText, d) ==
  LET m == timeMatch(text)
  IN IF m # NoMatch
     THEN [d EXCEPT !.habits = Merge(@, [wakeTime |-> m]),
                    !.insights = Append(@, "Wake time noted: " \o m)]
     ELSE d

\* if (lowerText.includes('wake') || lowerText.includes('morning')) ...
wakeRule(text, lowerText, d) ==
  IF includes(lowerText, "wake") \/ includes(lowerText, "morning")
  THEN LET m == timeMatch(text)
       IN IF m # NoMatch
          THEN [d EXCEPT !.habits = Merge(@, [wakeTime |-> m]),
                         !.insights = Append(@, "Wake time noted: " \o m)]
          ELSE d
  ELSE d

\* if (lowerText.includes('workout') || ... 'exercise' || ... 'gym') ...
workoutRule(lowerText, d) ==
  IF \/ includes(lowerText, "workout") \/ includes(lowerText, "exercise")
     \/ includes(lowerText, "gym")
  THEN [d EXCEPT !.habits = Merge(@, [workoutIntended |-> TRUE]),
                 !.insights = Append(@, "Workout activity detected")]
  ELSE d

\* a task rule that stops at the first verb it finds
taskRule_FirstOnly(lowerText, d) ==
  IF \/ includes(lowerText, "task") \/ includes(lowerText, "todo")
     \/ includes(lowerText, "need to")
  THEN LET found == SelectSeq(taskKeywords, LAMBDA k : includes(lowerText, k))
       IN [d EXCEPT !.tasks =
             @ \o [i \in 1..(IF found = <<>> THEN 0 ELSE 1) |->
                     [text |-> "Complete task related to: " \o found[i],
                      category |-> "Projects"]]]
  ELSE d

\* if (lowerText.includes('task') || ... 'todo' || ... 'need to'):
\* taskKeywords.forEach(keyword => { if (lowerText.includes(keyword)) push })
taskRule(lowerText, d) ==
  IF \/ includes(lowerText, "task") \/ includes(lowerText, "todo")
     \/ includes(lowerText, "need to")
  THEN LET found == SelectSeq(taskKeywords, LAMBDA k : includes(lowerText, k))
       IN [d EXCEPT !.tasks =
             @ \o [i \in 1..Len(found) |->
                     [text |-> "Complete task related to: " \o found[i],
                      category |-> "Projects"]]]
  ELSE d

\* if (lowerText.includes('learn') || ... 'study' || ... 'research') ...
learnRule(lowerText, d) ==
  IF \/ includes(lowerText, "learn") \/ includes(lowerText, "study")
     \/ includes(lowerText, "research")
  THEN [d EXCEPT !.paraCategory = PARA_CATEGORIES.RESOURCES,
                 !.insights = Append(@,
                   "Learning activity detected - categorized under Resources")]
  ELSE d

\* a project rule that leaves a category that is already set
projectRule_KeepFirst(lowerText, d) ==
  IF \/ includes(lowerText, "project") \/ includes(lowerText, "deadline")
     \/ includes(lowerText, "deliver")
  THEN [d EXCEPT !.paraCategory =
                   IF @ = NullString THEN PARA_CATEGORIES.PROJECTS ELSE @,
                 !.insights = Append(@, "Project-related activity detected")]
  ELSE d

\* if (lowerText.includes('project') || ... 'deadline' || ... 'deliver') ...
projectRule(lowerText, d) ==
  IF \/ includes(lowerText, "project") \/ includes(lowerText, "deadline")
     \/ includes(lowerText, "deliver")
  THEN [d EXCEPT !.paraCategory = PARA_CATEGORIES.PROJECTS,
                 !.insights = Append(@, "Project-related activity detected")]
  ELSE d

\* a mood rule that tests the positive keywords first
moodRule_PositiveFirst(lowerText, d) ==
  IF \/ includes(lowerText, "excited") \/ includes(lowerText, "great")
     \/ includes(lowerText, "awesome")
  THEN [d EXCEPT !.mood = "high"]
  ELSE IF \/ includes(lowerText, "stressed")
          \/ includes(lowerText, "overwhelmed")
          \/ includes(lowerText, "tired")
  THEN [d EXCEPT !.mood = "low"]
  ELSE d

\* if (... 'stressed' || 'overwhelmed' || 'tired') mood = "low"
\* else if (... 'excited' || 'great' || 'awesome') mood = "high"
moodRule(lowerText, d) ==
  IF \/ includes(lowerText, "stressed") \/ includes(lowerText, "overwhelmed")
     \/ includes(lowerText, "tired")
  THEN [d EXCEPT !.mood = "low"]
  ELSE IF \/ includes(lowerText, "excited") \/ includes(lowerText, "great")
          \/ includes(lowerText, "awesome")
  THEN [d EXCEPT !.mood = "high"]
  ELSE d

\* an extractor that files the canned response among the insights
simulateAIProcessing_EchoResponse(text, pick) ==
  LET lowerText == toLowerCase(text)
      d == moodRule(lowerText, projectRule(lowerText, learnRule(lowerText,
             taskRule(lowerText, workoutRule(lowerText,
               wakeRule(text, lowerText, NewExtractedData))))))
  IN [response |-> responses[pick],
      extractedData |-> [d EXCEPT !.insights = Append(@, responses[pick])]]

\* the object simulateAIProcessing resolves to; pick is the index drawn by
\* Math.random() for the canned response
simulateAIProcessing(text, pick) ==
  LET lowerText == toLowerCase(text)
      d1 == wakeRule(text, lowerText, NewExtractedData)
      d2 == workoutRule(lowerText, d1)
      d3 == taskRule(lowerText, d2)
      d4 == learnRule(lowerText, d3)
      d5 == projectRule(lowerText, d4)
      d6 == moodRule(lowerText, d5)
  IN [response |-> responses[pick], extractedData |-> d6]

\* ------------------------------------------------------------ the caller
\* partial records handed to upsertDay by the caller
Partials ==
  {EmptyObj,
   [wakeTime |-> "07:00", notes |-> "n"],
   [wakeTime |-> "08:00"]}

NoCall ==
  [op |-> "none", date |-> 0, data |-> EmptyObj, failed |-> FALSE,
   threw |-> FALSE, ret |-> Null, lsBefore |-> RawMissing,
   remBefore |-> <<>>]

\* the record of a returned call, kept for the properties
Entry(op, date, data, ok, r, ls0, rem0) ==
  [op |-> op, date |-> date, data |-> data, failed |-> (r.sent /\ ~ok),
   threw |-> r.threw, ret |-> r.ret, lsBefore |-> ls0, remBefore |-> rem0]

NewSeed == [pc |-> "load", d |-> 0, ls0 |-> localStorage, rem0 |-> remote]

SeedFinished == seed.pc \in {"done", "threw"}

\* seedIfEmpty, first part: await loadAllDays(), then the emptiness test
SeedLoad(ok) ==
  /\ seed.pc = "load"
  /\ LET r == loadAllDays(localStorage, remote, ok)
         all == r.ret
     IN /\ net' = (net \/ r.sent)
        /\ IF all.t = "null"
           THEN /\ seed' = [seed EXCEPT !.pc = "threw"]
                /\ last' = Entry("seedIfEmpty", 0, EmptyObj, ok,
                                 [r EXCEPT !.threw = TRUE, !.ret = Null],
                                 seed.ls0, seed.rem0)
                /\ prev' = last
           ELSE IF KeysEmpty(all)
           THEN /\ seed' = [seed EXCEPT !.pc = "upsert", !.d = todayISO]
                /\ UNCHANGED <<last, prev>>
           ELSE /\ seed' = [seed EXCEPT !.pc = "done"]
                /\ last' = Entry("seedIfEmpty", 0, EmptyObj, ok,
                                 [r EXCEPT !.ret = Null], seed.ls0, seed.rem0)
                /\ prev' = last
  /\ UNCHANGED <<sideVars, env, consts, localStorage, remote, today, calls>>
  /\ UNCHANGED uiVars

\* seedIfEmpty, second part: await upsertDay(d, {...})
SeedUpsert(ok) ==
  /\ seed.pc = "upsert"
  /\ LET r == upsertDay(localStorage, remote, seed.d, SeedRecord, ok)
     IN /\ net' = (net \/ r.sent)
        /\ localStorage' = r.ls
        /\ remote' = r.remote
        /\ seed' = [seed EXCEPT !.pc = IF r.threw THEN "threw" ELSE "done"]
        /\ last' = Entry("seedIfEmpty", seed.d, SeedRecord, ok,
                         [r EXCEPT !.ret = Null], seed.ls0, seed.rem0)
        /\ prev' = last
  /\ UNCHANGED <<sideVars, env, consts, today, calls>>
  /\ UNCHANGED uiVars

CallLoadAllDays(ok) ==
  /\ SeedFinished
  /\ calls < MaxCalls
  /\ LET r == loadAllDays(localStorage, remote, ok)
     IN /\ net' = (net \/ r.sent)
        /\ last' = Entry("loadAllDays", 0, EmptyObj, ok, r, localStorage, remote)
        /\ prev' = last
  /\ calls' = calls + 1
  /\ UNCHANGED <<sideVars, env, consts, localStorage, remote, today, seed>>
  /\ UNCHANGED uiVars

CallUpsertDay(date, data, ok) ==
  /\ SeedFinished
  /\ calls < MaxCalls
  /\ LET r == upsertDay(localStorage, remote, date, data, ok)
     IN /\ net' = (net \/ r.sent)
        /\ localStorage' = r.ls
        /\ remote' = r.remote
        /\ last' = Entry("upsertDay", date, data, ok, r, localStorage, remote)
        /\ prev' = last
  /\ calls' = calls + 1
  /\ UNCHANGED <<sideVars, env, consts, today, seed>>
  /\ UNCHANGED uiVars

CallReadDay(date, ok) ==
  /\ SeedFinished
  /\ calls < MaxCalls
  /\ LET r == readDay(localStorage, remote, date, ok)
     IN /\ net' = (net \/ r.sent)
        /\ last' = Entry("readDay", date, EmptyObj, ok, r, localStorage, remote)
        /\ prev' = last
  /\ calls' = calls + 1
  /\ UNCHANGED <<sideVars, env, consts, localStorage, remote, today, seed>>
  /\ UNCHANGED uiVars

\* the caller runs seedIfEmpty() again, as a reload of the page does
CallSeedIfEmpty ==
  /\ SeedFinished
  /\ calls < MaxCalls
  /\ seed' = NewSeed
  /\ calls' = calls + 1
  /\ UNCHANGED <<sideVars, env, consts, localStorage, remote, today, net, last, prev>>
  /\ UNCHANGED uiVars

\* -------------------------------------------------------------------- UI
MaxTasks == 2
MaxEvents == 3

Views == {"landing", "dashboard", "lifeos", "ai-assistant"}

\* what the user types into the chat and into Quick Capture
ChatTexts == {"wake 7:30 am gym", "so tired", "hello"}
CaptureTexts == {"idea"}

\* simulateAIProcessing on the texts above, for each canned response
Processed ==
  [text \in ChatTexts |->
     [pick \in 1..Len(responses) |-> simulateAIProcessing(text, pick)]]

\* the character U+2022 that Quick Capture puts before a note
Bullet == "*"

\* no QuickEdit is rendered
NoForm == Null

NoDash ==
  [mounted |-> FALSE, date |-> 0, data |-> EmptyObj, all |-> JObj(<<>>),
   loading |-> TRUE, form |-> NoForm]

\* the useState initial values of Dashboard
NewDash ==
  [mounted |-> TRUE, date |-> todayISO, data |-> EmptyObj,
   all |-> JObj(<<>>), loading |-> TRUE, form |-> NoForm]

\* the useState initial value of isProcessing in AIChatbot
NewChat == [isProcessing |-> FALSE]

\* no AIChatbot is rendered in the AI Assistant view
NoBot == Null

NoEvent == [k |-> "none"]

\* obj?.f  is a non-empty string
Truthy(obj, f) == f \in DOMAIN obj /\ obj[f] # ""

\* obj?.f?.g  is a non-empty string
Truthy2(obj, f, g) ==
  f \in DOMAIN obj /\ g \in DOMAIN obj[f] /\ obj[f][g] # ""

\* rd || {}
OrEmpty(v) == IF v = Null THEN EmptyObj ELSE v

hasData(data, ai) ==
  \/ Truthy(data, "wakeTime")
  \/ Truthy2(data, "workout", "status")
  \/ Truthy2(data, "lunch", "time")
  \/ Truthy2(data, "dinner", "time")
  \/ ai # Null

\* Dashboard renders the day view (not the loading text, not EmptyState)
FullView(d, a, ai) ==
  a = "dashboard" /\ d.mounted /\ ~d.loading /\ hasData(d.data, ai)

\* an AIChatbot is rendered: in AIAssistant, or in the Dashboard's day view
ChatMounted(d, a, ai) == a = "ai-assistant" \/ FullView(d, a, ai)

RemoveAt(ts, i) == SubSeq(ts, 1, i - 1) \o SubSeq(ts, i + 1, Len(ts))

\* insights.join(", ")
RECURSIVE join(_)
join(xs) ==
  IF xs = <<>> THEN ""
  ELSE IF Len(xs) = 1 THEN xs[1]
  ELSE xs[1] \o ", " \o join(Tail(xs))

\* the onAdd that Dashboard passes to QuickCapture: the partial it saves
onAdd(data, text) ==
  LET prevNotes == IF Truthy(data, "notes") THEN data.notes \o "\\n" ELSE ""
  IN [notes |-> prevNotes \o Bullet \o " " \o text]

\* the onProcess that Dashboard passes to AIChatbot: the record it saves
onProcess(data, processedData) ==
  LET u1 == IF Truthy(processedData.habits, "wakeTime")
            THEN Merge(data, [wakeTime |-> processedData.habits.wakeTime])
            ELSE data
      u2 == IF "workoutIntended" \in DOMAIN processedData.habits
            THEN Merge(u1, [workout |->
                   Merge(IF "workout" \in DOMAIN u1 THEN u1.workout
                         ELSE EmptyObj, [status |-> "intended"])])
            ELSE u1
      u3 == IF processedData.mood # "neutral"
            THEN Merge(u2, [mood |-> processedData.mood])
            ELSE u2
      prevNotes == IF Truthy(data, "notes") THEN data.notes \o "\\n" ELSE ""
  IN IF Len(processedData.insights) > 0
     THEN Merge(u3, [notes |-> prevNotes \o "AI Insights: "
                                \o join(processedData.insights)])
     ELSE u3

\* In the local backend every store call completes in the turn that makes
\* it, so a handler runs to its end before the next user event or timer.
Quiet ==
  \/ UseRemote
  \/ /\ SeedFinished
     /\ \A i \in DOMAIN tasks : tasks[i].k = "chat"

\* obj?.f?.g || dflt
Get2Or(obj, f, g, dflt) == IF Truthy2(obj, f, g) THEN obj[f][g] ELSE dflt

\* QuickEdit: the initial value of form, computed from data when QuickEdit is
\* mounted
NewForm(data) ==
  [wakeTime |-> IF Truthy(data, "wakeTime") THEN data.wakeTime ELSE "",
   lunchTime |-> Get2Or(data, "lunch", "time", "13:30"),
   lunchDetails |-> Get2Or(data, "lunch", "details", "veg + one vegetable + dal"),
   dinnerTime |-> Get2Or(data, "dinner", "time", "21:00"),
   dinnerDetails |->
     Get2Or(data, "dinner", "details", "grilled protein (chicken or fish)"),
   workoutTime |-> Get2Or(data, "workout", "time", "19:00"),
   workoutStatus |-> Get2Or(data, "workout", "status", "pending"),
   notes |-> IF Truthy(data, "notes") THEN data.notes ELSE ""]

\* QuickEdit: the form the Reset button sets
ResetForm ==
  [wakeTime |-> "",
   lunchTime |-> DEFAULT_GOALS.lunchTime,
   lunchDetails |-> "veg + one vegetable + dal",
   dinnerTime |-> DEFAULT_GOALS.dinnerTime,
   dinnerDetails |-> "grilled protein (chicken or fish)",
   workoutTime |-> DEFAULT_GOALS.workoutGoal,
   workoutStatus |-> "pending",
   notes |-> ""]

\* a submit whose workout status is read from the workout time field
submit_StatusFromTime(form) ==
  [wakeTime |-> form.wakeTime,
   lunch |-> [time |-> form.lunchTime, details |-> form.lunchDetails],
   dinner |-> [time |-> form.dinnerTime, details |-> form.dinnerDetails],
   workout |-> [time |-> form.workoutTime, status |-> form.workoutTime],
   notes |-> form.notes,
   goals |-> DEFAULT_GOALS]

\* QuickEdit submit: the record given to onSave
submit(form) ==
  [wakeTime |-> form.wakeTime,
   lunch |-> [time |-> form.lunchTime, details |-> form.lunchDetails],
   dinner |-> [time |-> form.dinnerTime, details |-> form.dinnerDetails],
   workout |-> [time |-> form.workoutTime, status |-> form.workoutStatus],
   notes |-> form.notes,
   goals |-> DEFAULT_GOALS]

\* what the user enters in QuickEdit: a wake time in the time input, a
\* status among the options of the select
FormEdits ==
  {<<"wakeTime", "06:30">>, <<"workoutStatus", "pending">>,
   <<"workoutStatus", "done">>, <<"workoutStatus", "skipped">>}

\* React applies the state; an AIChatbot that stops being rendered loses its
\* state, and the handlers it still runs can no longer set it
Commit(a, ai, d, c, ts) ==
  LET keep == /\ a = active
              /\ ChatMounted(dash, active, aiProcessedData)
              /\ ChatMounted(d, a, ai)
      form == IF ~FullView(d, a, ai) THEN NoForm
              ELSE IF a = active /\ FullView(dash, active, aiProcessedData)
                      /\ d.form # NoForm
              THEN d.form
              ELSE NewForm(d.data)
  IN /\ active' = a
     /\ aiProcessedData' = ai
     /\ dash' = [d EXCEPT !.form = form]
     /\ chat' = IF keep THEN c ELSE NewChat
     /\ tasks' = IF keep THEN ts
                 ELSE [i \in DOMAIN ts |->
                         IF ts[i].k = "chat"
                         THEN [ts[i] EXCEPT !.live = FALSE] ELSE ts[i]]

MountTask == [k |-> "mount", pc |-> "load", d |-> 0, live |-> TRUE]
ReadTask(date) == [k |-> "read", date |-> date, live |-> TRUE]
TodayTask(d, cdate) == [k |-> "today", d |-> d, cdate |-> cdate, live |-> TRUE]
SaveTask(date, partial, origin, d, extracted, live) ==
  [k |-> "save", pc |-> "upsert", date |-> date, partial |-> partial,
   origin |-> origin, d |-> d, extracted |-> extracted, live |-> live]
ChatTask(view, text, cdata, cdate) ==
  [k |-> "chat", view |-> view, text |-> text, cdata |-> cdata,
   cdate |-> cdate, live |-> TRUE, dlive |-> (view = "dashboard")]

\* the handlers of an unmounted view: they can set no state any more; the
\* ones that only read the store are dropped
Orphans(ts) ==
  LET dead == SelectSeq(ts, LAMBDA t : t.k \in {"today", "save", "chat"})
  IN [i \in DOMAIN dead |->
        IF dead[i].k = "chat"
        THEN [dead[i] EXCEPT !.live = FALSE, !.dlive = FALSE]
        ELSE [dead[i] EXCEPT !.live = FALSE]]

\* a Nav button: setActive(to); Dashboard mounts with its two effects
Navigate(to) ==
  /\ Quiet
  /\ to # active
  /\ IF to = "dashboard"
     THEN /\ Len(Orphans(tasks)) + 2 <= MaxTasks
          /\ Commit(to, aiProcessedData, NewDash, NewChat,
                    Orphans(tasks) \o <<MountTask, ReadTask(todayISO)>>)
     ELSE Commit(to, aiProcessedData, NoDash, NewChat, Orphans(tasks))
  /\ ev' = NoEvent
  /\ UNCHANGED <<storeVars, sideVars>>
  /\ events < MaxEvents
  /\ events' = events + 1

\* a request to the remote backend fails: it counts among the events
Outage(ok) == UseRemote /\ ~ok

CountOutage(ok) ==
  /\ Outage(ok) => events < MaxEvents
  /\ events' = IF Outage(ok) THEN events + 1 ELSE events

\* Dashboard, first effect: await loadAllDays(); setAll; setDate(prev => ...)
MountLoad(i, ok) ==
  /\ i \in DOMAIN tasks
  /\ tasks[i].k = "mount" /\ tasks[i].pc = "load"
  /\ LET t == tasks[i]
         r == loadAllDays(localStorage, remote, ok)
     IN /\ net' = (net \/ r.sent)
        /\ Commit(active, aiProcessedData,
                  IF t.live THEN [dash EXCEPT !.all = r.ret] ELSE dash,
                  chat,
                  [tasks EXCEPT ![i] = [t EXCEPT !.pc = "read", !.d = todayISO]])
  /\ ev' = NoEvent
  /\ UNCHANGED <<sideVars, env, consts, localStorage, remote, today, seed, last, prev, calls>>
  /\ CountOutage(ok)

\* Dashboard, first effect: await readDay(d); setData; setLoading(false)
MountRead(i, ok) ==
  /\ i \in DOMAIN tasks
  /\ tasks[i].k = "mount" /\ tasks[i].pc = "read"
  /\ LET t == tasks[i]
         r == readDay(localStorage, remote, t.d, ok)
     IN /\ net' = (net \/ r.sent)
        /\ Commit(active, aiProcessedData,
                  IF t.live /\ ~r.threw
                  THEN [dash EXCEPT !.data = OrEmpty(r.ret), !.loading = FALSE]
                  ELSE dash,
                  chat, RemoveAt(tasks, i))
  /\ ev' = NoEvent
  /\ UNCHANGED <<sideVars, env, consts, localStorage, remote, today, seed, last, prev, calls>>
  /\ CountOutage(ok)

\* Dashboard, second effect (runs for each new date): readDay(date); setData
DateRead(i, ok) ==
  /\ i \in DOMAIN tasks
  /\ tasks[i].k = "read"
  /\ LET t == tasks[i]
         r == readDay(localStorage, remote, t.date, ok)
     IN /\ net' = (net \/ r.sent)
        /\ Commit(active, aiProcessedData,
                  IF t.live /\ ~r.threw
                  THEN [dash EXCEPT !.data = OrEmpty(r.ret)] ELSE dash,
                  chat, RemoveAt(tasks, i))
  /\ ev' = NoEvent
  /\ UNCHANGED <<sideVars, env, consts, localStorage, remote, today, seed, last, prev, calls>>
  /\ CountOutage(ok)

\* the option the <select> shows: the one equal to date, else the first of
\* dates, which is Object.keys(all).sort().reverse()
Displayed(d) ==
  IF d.date \in DOMAIN d.all.days THEN d.date
  ELSE CHOOSE m \in DOMAIN d.all.days : \A x \in DOMAIN d.all.days : x <= m

\* the date <select>: setDate(e.target.value), the options being the dates
\* of all
SelectDate(d) ==
  /\ Quiet
  /\ FullView(dash, active, aiProcessedData)
  /\ d \in DOMAIN dash.all.days
  /\ d # Displayed(dash)
  /\ Len(tasks) < MaxTasks
  /\ Commit(active, aiProcessedData, [dash EXCEPT !.date = d], chat,
            Append(tasks, ReadTask(d)))
  /\ ev' = NoEvent
  /\ UNCHANGED <<storeVars, sideVars>>
  /\ events < MaxEvents
  /\ events' = events + 1

\* the Today button: setDate(d) and the call of readDay(d); saveDay is the
\* one of the render the button belongs to
ClickToday ==
  /\ Quiet
  /\ FullView(dash, active, aiProcessedData)
  /\ LET d == todayISO
         effect == IF d # dash.date THEN <<ReadTask(d)>> ELSE <<>>
     IN /\ Len(tasks) + 1 + Len(effect) <= MaxTasks
        /\ Commit(active, aiProcessedData, [dash EXCEPT !.date = d], chat,
                  tasks \o <<TodayTask(d, dash.date)>> \o effect)
  /\ ev' = NoEvent
  /\ UNCHANGED <<storeVars, sideVars>>
  /\ events < MaxEvents
  /\ events' = events + 1

\* the Today button, after await readDay(d): if (!rd) await saveDay({})
TodayRead(i, ok) ==
  /\ i \in DOMAIN tasks
  /\ tasks[i].k = "today"
  /\ LET t == tasks[i]
         r == readDay(localStorage, remote, t.d, ok)
     IN /\ net' = (net \/ r.sent)
        /\ Commit(active, aiProcessedData, dash, chat,
                  IF ~r.threw /\ r.ret = Null
                  THEN [tasks EXCEPT ![i] =
                          SaveTask(t.cdate, EmptyObj, "today", t.d, Null, t.live)]
                  ELSE RemoveAt(tasks, i))
  /\ ev' = NoEvent
  /\ UNCHANGED <<sideVars, env, consts, localStorage, remote, today, seed, last, prev, calls>>
  /\ CountOutage(ok)

\* QuickCapture's Add button with a non-blank text
QuickCapture(text) ==
  /\ Quiet
  /\ FullView(dash, active, aiProcessedData)
  /\ events < MaxEvents
  /\ Len(tasks) < MaxTasks
  /\ Commit(active, aiProcessedData, dash, chat,
            Append(tasks, SaveTask(dash.date, onAdd(dash.data, text),
                                   "capture", dash.date, Null, TRUE)))
  /\ events' = events + 1
  /\ ev' = NoEvent
  /\ UNCHANGED <<storeVars, sideVars>>

\* QuickEdit: update(k, v) from an input or the select
EditForm(k, v) ==
  /\ Quiet
  /\ FullView(dash, active, aiProcessedData)
  /\ dash.form[k] # v
  /\ events < MaxEvents
  /\ Commit(active, aiProcessedData, [dash EXCEPT !.form[k] = v], chat, tasks)
  /\ events' = events + 1
  /\ ev' = NoEvent
  /\ UNCHANGED <<storeVars, sideVars>>

\* QuickEdit: the Reset button
ClickReset ==
  /\ Quiet
  /\ FullView(dash, active, aiProcessedData)
  /\ dash.form # ResetForm
  /\ events < MaxEvents
  /\ Commit(active, aiProcessedData, [dash EXCEPT !.form = ResetForm], chat,
            tasks)
  /\ events' = events + 1
  /\ ev' = NoEvent
  /\ UNCHANGED <<storeVars, sideVars>>

\* QuickEdit: Save Day, onSave being the saveDay of the render
SubmitForm ==
  /\ Quiet
  /\ FullView(dash, active, aiProcessedData)
  /\ events < MaxEvents
  /\ Len(tasks) < MaxTasks
  /\ Commit(active, aiProcessedData, dash, chat,
            Append(tasks, SaveTask(dash.date, submit(dash.form), "edit",
                                   dash.date, Null, TRUE)))
  /\ events' = events + 1
  /\ ev' = NoEvent
  /\ UNCHANGED <<storeVars, sideVars>>

\* saveDay: const updated = await upsertDay(date, partial); setData(updated)
SaveUpsert(i, ok) ==
  /\ i \in DOMAIN tasks
  /\ tasks[i].k = "save" /\ tasks[i].pc = "upsert"
  /\ LET t == tasks[i]
         r == upsertDay(localStorage, remote, t.date, t.partial, ok)
     IN /\ net' = (net \/ r.sent)
        /\ localStorage' = r.ls
        /\ remote' = r.remote
        /\ Commit(active, aiProcessedData,
                  IF t.live /\ ~r.threw
                  THEN [dash EXCEPT !.data = OrEmpty(r.ret)] ELSE dash,
                  chat,
                  IF r.threw THEN RemoveAt(tasks, i)
                  ELSE [tasks EXCEPT ![i] = [t EXCEPT !.pc = "reload"]])
  /\ ev' = NoEvent
  /\ UNCHANGED <<sideVars, env, consts, today, seed, last, prev, calls>>
  /\ CountOutage(ok)

\* saveDay: const reloaded = await loadAllDays(); setAll(reloaded); then the
\* rest of the handler that awaited saveDay
SaveReload(i, ok) ==
  /\ i \in DOMAIN tasks
  /\ tasks[i].k = "save" /\ tasks[i].pc = "reload"
  /\ LET t == tasks[i]
         r == loadAllDays(localStorage, remote, ok)
     IN /\ net' = (net \/ r.sent)
        /\ Commit(active,
                  IF t.origin = "chat" THEN t.extracted ELSE aiProcessedData,
                  IF t.live THEN [dash EXCEPT !.all = r.ret] ELSE dash,
                  chat, RemoveAt(tasks, i))
        /\ ev' = [k |-> t.origin, view |-> "dashboard", date |-> t.date,
                  d |-> t.d, delta |-> t.extracted]
  /\ UNCHANGED <<sideVars, env, consts, localStorage, remote, today, seed, last, prev, calls>>
  /\ CountOutage(ok)

\* handleSubmit with a non-blank input: the user message is added and
\* simulateAIProcessing(text) starts its timer
ChatSubmit(text) ==
  /\ Quiet
  /\ ChatMounted(dash, active, aiProcessedData)
  /\ ~chat.isProcessing
  /\ events < MaxEvents
  /\ Len(tasks) < MaxTasks
  /\ Commit(active, aiProcessedData, dash, [chat EXCEPT !.isProcessing = TRUE],
            Append(tasks, ChatTask(active, text, dash.data, dash.date)))
  /\ events' = events + 1
  /\ ev' = NoEvent
  /\ UNCHANGED <<storeVars, sideVars>>

\* processMessage after the timer: the reply is added, onProcess is called
\* (not awaited) with the onProcess of the render that submitted, and
\* isProcessing is reset
ChatTimer(i, pick) ==
  /\ Quiet
  /\ i \in DOMAIN tasks
  /\ tasks[i].k = "chat"
  /\ LET t == tasks[i]
         processedData == Processed[t.text][pick].extractedData
         c == IF t.live THEN [chat EXCEPT !.isProcessing = FALSE] ELSE chat
     IN IF t.view = "dashboard"
        THEN /\ Commit(active, aiProcessedData, dash, c,
                       [tasks EXCEPT ![i] =
                          SaveTask(t.cdate, onProcess(t.cdata, processedData),
                                   "chat", t.cdate, processedData, t.dlive)])
             /\ ev' = NoEvent
        ELSE /\ Commit(active, aiProcessedData, dash, c, RemoveAt(tasks, i))
             /\ ev' = [k |-> "chat", view |-> t.view, date |-> todayISO,
                       d |-> todayISO, delta |-> processedData]
  /\ UNCHANGED <<storeVars, sideVars, events>>

\* the page is loaded again: the module is evaluated and seedIfEmpty() runs
Reload ==
  /\ SeedFinished
  /\ Quiet
  /\ seed' = NewSeed
  /\ active' = "landing"
  /\ aiProcessedData' = Null
  /\ dash' = NoDash
  /\ chat' = NewChat
  /\ tasks' = <<>>
  /\ ev' = NoEvent
  /\ isTouring' = FALSE
  /\ tourStep' = 0
  /\ chatbot' = NoBot
  /\ pending' = <<>>
  /\ UNCHANGED <<extractVars, env, consts, localStorage, remote, today, net, last, prev, calls>>
  /\ events < MaxEvents
  /\ events' = events + 1

\* midnight passes, while no handler is in flight
Tick ==
  /\ SeedFinished
  /\ tasks = <<>>
  /\ today < MaxDay
  /\ today' = today + 1
  /\ ev' = NoEvent
  /\ UNCHANGED <<sideVars, env, consts, localStorage, remote, net, seed, last, prev, calls,
                 active, aiProcessedData, dash, chat, tasks, events>>

\* ------------------------------------------------------------ behaviours
\* no run of simulateAIProcessing yet
NoResult == [done |-> FALSE]

InitUI ==
  /\ input = ""
  /\ result = NoResult
  /\ earlier = NoResult
  /\ isTouring = FALSE
  /\ tourStep = 0
  /\ chatbot = NoBot
  /\ pending = <<>>
  /\ active = "landing"
  /\ aiProcessedData = Null
  /\ dash = NoDash
  /\ chat = NewChat
  /\ tasks = <<>>
  /\ events = 0
  /\ ev = NoEvent

InitStore ==
  /\ env \in Envs
  /\ consts = ModuleConsts(env)
  /\ localStorage = RawMissing
  /\ remote = <<>>
  /\ today = 1
  /\ net = FALSE
  /\ seed = [pc |-> "load", d |-> 0, ls0 |-> RawMissing, rem0 |-> <<>>]
  /\ last = NoCall
  /\ prev = NoCall
  /\ calls = 0
  /\ InitUI

\* the store functions called one after the other by a caller
NextStore ==
  \/ \E ok \in BOOLEAN : SeedLoad(ok)
  \/ \E ok \in BOOLEAN : SeedUpsert(ok)
  \/ \E ok \in BOOLEAN : CallLoadAllDays(ok)
  \/ \E d \in Dates, p \in Partials, ok \in BOOLEAN : CallUpsertDay(d, p, ok)
  \/ \E d \in Dates, ok \in BOOLEAN : CallReadDay(d, ok)
  \/ CallSeedIfEmpty

SpecStore == InitStore /\ [][NextStore]_vars

\* local storage holding something else than the text the app writes
MalformedRaws ==
  {RawEmpty, RawGarbage, RawJson(JNull), RawJson(JNum), RawJson(JArr(<<>>))}

InitMalformed ==
  /\ env \in Envs
  /\ consts = ModuleConsts(env)
  /\ localStorage \in MalformedRaws
  /\ remote = <<>>
  /\ today = 1
  /\ net = FALSE
  /\ seed = [pc |-> "load", d |-> 0, ls0 |-> localStorage, rem0 |-> <<>>]
  /\ last = NoCall
  /\ prev = NoCall
  /\ calls = 0
  /\ InitUI

SpecMalformed == InitMalformed /\ [][NextStore]_vars

\* the builds the application is run with: local, and Supabase
AppEnvs ==
  {[VITE_BACKEND |-> "", VITE_SUPABASE_URL |-> "", VITE_SUPABASE_KEY |-> ""],
   [VITE_BACKEND |-> "supabase", VITE_SUPABASE_URL |-> "set",
    VITE_SUPABASE_KEY |-> "set"]}

\* ------------------------------------------- upserts in flight together
\* the partial records of callers that do not await each other
ConcPartials ==
  {[wakeTime |-> "07:00"], [notes |-> "n"], [wakeTime |-> "08:00"]}

\* upsertDay(date, data) is called and its promise is not awaited: on the
\* local backend upsertDayLocal has run when the call returns, on the remote
\* backend the request is on its way; each of the MaxTasks callers calls once
StartUpsert(date, data) ==
  /\ SeedFinished
  /\ calls < MaxTasks
  /\ LET r == upsertDayLocal(localStorage, remote, date, data, FALSE)
         t == [k |-> "upsert", date |-> date, data |-> data, over |-> FALSE,
               written |-> ~UseRemote, r |-> r, ls0 |-> localStorage,
               rem0 |-> remote]
     IN /\ tasks' = Append(tasks, t)
        /\ localStorage' = IF UseRemote THEN localStorage ELSE r.ls
        /\ net' = (net \/ UseRemote)
  /\ calls' = calls + 1
  /\ UNCHANGED <<sideVars, env, consts, remote, today, seed, last, prev,
                 active, aiProcessedData, dash, chat, events, ev>>

\* the promise of an upsertDay settles: the remote answer has come (and the
\* catch has run upsertDayLocal when it was an error), the caller has the
\* record
FinishUpsert(i, ok) ==
  /\ i \in DOMAIN tasks
  /\ tasks[i].k = "upsert"
  /\ LET t == tasks[i]
         r == IF t.written THEN t.r
              ELSE upsertDay(localStorage, remote, t.date, t.data, ok)
         ls0 == IF t.written THEN t.ls0 ELSE localStorage
         rem0 == IF t.written THEN t.rem0 ELSE remote
         rest == RemoveAt(tasks, i)
     IN /\ localStorage' = IF t.written THEN localStorage ELSE r.ls
        /\ remote' = IF t.written THEN remote ELSE r.remote
        /\ last' = Entry("upsertDay", t.date, t.data, ok, r, ls0, rem0)
        /\ prev' = last
        /\ tasks' = [j \in DOMAIN rest |-> [rest[j] EXCEPT !.over = TRUE]]
        /\ ev' = [k |-> "upsert", overlapped |-> t.over]
  /\ UNCHANGED <<sideVars, env, consts, today, net, seed, calls,
                 active, aiProcessedData, dash, chat, events>>

NextConc ==
  \/ \E ok \in BOOLEAN : SeedLoad(ok)
  \/ \E ok \in BOOLEAN : SeedUpsert(ok)
  \/ \E d \in Dates, p \in ConcPartials : StartUpsert(d, p)
  \/ \E i \in 1..MaxTasks, ok \in BOOLEAN : FinishUpsert(i, ok)

InitConc == InitStore /\ env \in AppEnvs

SpecConc == InitConc /\ [][NextConc]_vars

\* ------------------------------------------------ the extractor on texts
MaxWords == 1

\* messages, among them the examples of the specification
ExampleTexts ==
  {"", "I woke up at 7:30 am", "had a great workout, feeling excited",
   "need to finish the report, deadline project",
   "TODO: prepare slides, then start and finish",
   "Morning run at 6 AM, wake 5:45"}

\* words a message is continued with
Fragments ==
  {" wake", " Morning", " 7:30", " 12:05 pm", " 9pm", " 10  AM", " at 6",
   " gym", " workout", " exercise", " task", " need to", " complete",
   " work on", " learn", " study", " research", " project", " deliver",
   " stressed", " overwhelmed", " tired", " excited", " awesome"}

\* the example texts continued with at most n words
RECURSIVE Typed(_)
Typed(n) ==
  IF n = 0 THEN ExampleTexts
  ELSE Typed(n - 1) \cup {t \o f : t \in Typed(n - 1), f \in Fragments}

\* simulateAIProcessing on these texts, for each canned response
ProcessedTyped ==
  [text \in Typed(MaxWords) |->
     [pick \in 1..Len(responses) |-> simulateAIProcessing(text, pick)]]

\* a run of simulateAIProcessing(input): the timer, then the rules
CallSimulateAIProcessing(pick) ==
  /\ result' = [done |-> TRUE, out |-> ProcessedTyped[input][pick]]
  /\ earlier' = result
  /\ UNCHANGED <<storeVars, active, aiProcessedData, dash, chat, tasks,
                 events, ev, input, tourVars, botVars>>

InitExtract ==
  /\ env = [VITE_BACKEND |-> "", VITE_SUPABASE_URL |-> "",
            VITE_SUPABASE_KEY |-> ""]
  /\ consts = ModuleConsts(env)
  /\ localStorage = RawMissing
  /\ remote = <<>>
  /\ today = 1
  /\ net = FALSE
  /\ seed = [pc |-> "load", d |-> 0, ls0 |-> RawMissing, rem0 |-> <<>>]
  /\ last = NoCall
  /\ prev = NoCall
  /\ calls = 0
  /\ active = "landing"
  /\ aiProcessedData = Null
  /\ dash = NoDash
  /\ chat = NewChat
  /\ tasks = <<>>
  /\ events = 0
  /\ ev = NoEvent
  /\ input \in Typed(MaxWords)
  /\ result = NoResult
  /\ earlier = NoResult
  /\ isTouring = FALSE
  /\ tourStep = 0
  /\ chatbot = NoBot
  /\ pending = <<>>

NextExtract == \E pick \in 1..Len(responses) : CallSimulateAIProcessing(pick)

SpecExtract == InitExtract /\ [][NextExtract]_vars

InitApp ==
  /\ env \in AppEnvs
  /\ consts = ModuleConsts(env)
  /\ localStorage = RawMissing
  /\ remote = <<>>
  /\ today = 1
  /\ net = FALSE
  /\ seed = [pc |-> "load", d |-> 0, ls0 |-> RawMissing, rem0 |-> <<>>]
  /\ last = NoCall
  /\ prev = NoCall
  /\ calls = 0
  /\ InitUI

\* the application used through its views
Next ==
  \/ \E ok \in BOOLEAN : SeedLoad(ok)
  \/ \E ok \in BOOLEAN : SeedUpsert(ok)
  \/ \E to \in Views : Navigate(to)
  \/ \E i \in 1..MaxTasks, ok \in BOOLEAN : MountLoad(i, ok)
  \/ \E i \in 1..MaxTasks, ok \in BOOLEAN : MountRead(i, ok)
  \/ \E i \in 1..MaxTasks, ok \in BOOLEAN : DateRead(i, ok)
  \/ \E d \in Dates : SelectDate(d)
  \/ ClickToday
  \/ \E i \in 1..MaxTasks, ok \in BOOLEAN : TodayRead(i, ok)
  \/ \E text \in CaptureTexts : QuickCapture(text)
  \/ \E e \in FormEdits : EditForm(e[1], e[2])
  \/ ClickReset
  \/ SubmitForm
  \/ \E i \in 1..MaxTasks, ok \in BOOLEAN : SaveUpsert(i, ok)
  \/ \E i \in 1..MaxTasks, ok \in BOOLEAN : SaveReload(i, ok)
  \/ \E text \in ChatTexts : ChatSubmit(text)
  \/ \E i \in 1..MaxTasks, pick \in 1..Len(responses) : ChatTimer(i, pick)
  \/ Reload
  \/ Tick

Spec == InitApp /\ [][Next]_vars

\* ------------------------------------------------------------------ tour
\* TOUR_STEPS: the id and the target of each step; the first has no target
NoTarget == ""

TOUR_STEPS ==
  << [id |-> "welcome",        target |-> NoTarget],
     [id |-> "ai-assistant",   target |-> "[data-tour='ai-assistant']"],
     [id |-> "para-method",    target |-> "[data-tour='para-dashboard']"],
     [id |-> "daily-tracking", target |-> "[data-tour='daily-tracking']"],
     [id |-> "quick-edit",     target |-> "[data-tour='quick-edit']"],
     [id |-> "navigation",     target |-> "[data-tour='navigation']"] >>

\* TOUR_STEPS[i], the steps being numbered from 0
StepAt(i) == TOUR_STEPS[i + 1]

LastStep == Len(TOUR_STEPS) - 1

\* nextTourStep with its test of the last step removed
nextTourStep_Unguarded(step, a) ==
  [tourStep |-> step + 1,
   active   |-> IF step > LastStep THEN a
                ELSE IF StepAt(step).target = "[data-tour='ai-assistant']"
                THEN "ai-assistant"
                ELSE IF StepAt(step).target \in
                          {"[data-tour='daily-tracking']",
                           "[data-tour='para-dashboard']"}
                THEN "dashboard"
                ELSE a]

\* nextTourStep: below the last step, setTourStep(tourStep + 1) and a
\* setActive chosen by the target of TOUR_STEPS[tourStep], the step that the
\* handler's render shows
nextTourStep(step, a) ==
  IF step < Len(TOUR_STEPS) - 1
  THEN [tourStep |-> step + 1,
        active   |-> IF StepAt(step).target = "[data-tour='ai-assistant']"
                     THEN "ai-assistant"
                     ELSE IF StepAt(step).target \in
                               {"[data-tour='daily-tracking']",
                                "[data-tour='para-dashboard']"}
                     THEN "dashboard"
                     ELSE a]
  ELSE [tourStep |-> step, active |-> a]

\* prevTourStep: above step 0, setTourStep(tourStep - 1)
prevTourStep(step) == IF step > 0 THEN step - 1 ELSE step

\* setActive(to) from a handler of App: nothing is mounted anew when the view
\* stays, Dashboard mounts with its two effects when it becomes the view
SetActive(to) ==
  IF to = active
  THEN UNCHANGED <<active, aiProcessedData, dash, chat, tasks>>
  ELSE IF to = "dashboard"
  THEN /\ Len(Orphans(tasks)) + 2 <= MaxTasks
       /\ Commit(to, aiProcessedData, NewDash, NewChat,
                 Orphans(tasks) \o <<MountTask, ReadTask(todayISO)>>)
  ELSE Commit(to, aiProcessedData, NoDash, NewChat, Orphans(tasks))

TourEvent(op) == [k |-> "tour", op |-> op]

\* the buttons AppTour renders at the step shown
PreviousShown == isTouring /\ tourStep > 0
CompleteTourShown == isTouring /\ tourStep = LastStep
NextShown == isTouring /\ tourStep < LastStep

\* Landing's tour button: startTour
StartTour ==
  /\ Quiet
  /\ active = "landing"
  /\ ~isTouring
  /\ isTouring' = TRUE
  /\ tourStep' = 0
  /\ SetActive("dashboard")
  /\ ev' = TourEvent("start")
  /\ UNCHANGED <<storeVars, extractVars, botVars, events>>

\* onNext of the open overlay: nextTourStep
NextTourStep ==
  /\ Quiet
  /\ isTouring
  /\ LET n == nextTourStep(tourStep, active)
     IN /\ tourStep' = n.tourStep
        /\ SetActive(n.active)
  /\ ev' = TourEvent("next")
  /\ UNCHANGED <<storeVars, extractVars, botVars, events, isTouring>>

\* onPrev of the open overlay: prevTourStep
PrevTourStep ==
  /\ Quiet
  /\ isTouring
  /\ tourStep' = prevTourStep(tourStep)
  /\ ev' = TourEvent("prev")
  /\ UNCHANGED <<storeVars, extractVars, botVars, events, isTouring,
                 active, aiProcessedData, dash, chat, tasks>>

\* the Complete Tour button, onClose: endTour
EndTour ==
  /\ Quiet
  /\ CompleteTourShown
  /\ isTouring' = FALSE
  /\ tourStep' = 0
  /\ ev' = TourEvent("end")
  /\ UNCHANGED <<storeVars, extractVars, botVars, events,
                 active, aiProcessedData, dash, chat, tasks>>

\* a Nav button, which the open overlay covers
TourNavigate(to) == ~isTouring /\ Navigate(to)

\* the application taken through its tour; the overlay's buttons are not
\* counted among the events, the tour having six positions
NextTour ==
  \/ \E ok \in BOOLEAN : SeedLoad(ok)
  \/ \E ok \in BOOLEAN : SeedUpsert(ok)
  \/ StartTour
  \/ NextTourStep
  \/ PrevTourStep
  \/ EndTour
  \/ \E to \in Views : TourNavigate(to)
  \/ \E i \in 1..MaxTasks, ok \in BOOLEAN : MountLoad(i, ok)
  \/ \E i \in 1..MaxTasks, ok \in BOOLEAN : MountRead(i, ok)
  \/ \E i \in 1..MaxTasks, ok \in BOOLEAN : DateRead(i, ok)

SpecTour == InitApp /\ [][NextTour]_vars

\* ------------------------------------------------- the assistant's chat
\* String.prototype.trim, the white space being blanks
RECURSIVE trim(_)
trim(str) ==
  IF str = "" THEN ""
  ELSE IF SubSeq(str, 1, 1) = " " THEN trim(Tail(str))
  ELSE IF SubSeq(str, Len(str), Len(str)) = " "
  THEN trim(SubSeq(str, 1, Len(str) - 1))
  ELSE str

\* what the user types into the chat's input
ChatInputs == {"hello", "  "}

\* the useState initial values of messages and input in AIChatbot
Greeting ==
  "Hi! I'm your AI Life Assistant. I can help you organize your thoughts, tasks, and daily information automatically. Tell me about your day, goals, or anything on your mind!"

NewBot ==
  [messages |-> <<[id |-> 1, type |-> "ai", content |-> Greeting]>>,
   input |-> ""]

\* processMessage that leaves the input as it is
processMessage_KeepsInput(bot, busy, text) ==
  IF trim(text) = ""
  THEN [messages |-> bot.messages, input |-> bot.input,
        isProcessing |-> busy, started |-> FALSE]
  ELSE [messages |-> Append(bot.messages,
                            [id |-> Len(bot.messages) + 1, type |-> "user",
                             content |-> text]),
        input |-> bot.input, isProcessing |-> TRUE, started |-> TRUE]

\* processMessage(text) up to its await: nothing for a blank text, else the
\* user message is added, the input is cleared and isProcessing is set
processMessage(bot, busy, text) ==
  IF trim(text) = ""
  THEN [messages |-> bot.messages, input |-> bot.input,
        isProcessing |-> busy, started |-> FALSE]
  ELSE [messages |-> Append(bot.messages,
                            [id |-> Len(bot.messages) + 1, type |-> "user",
                             content |-> text]),
        input |-> "", isProcessing |-> TRUE, started |-> TRUE]

\* processMessage after its await: the reply, with the id computed from the
\* messages of the render that submitted
aiMessage(len, processedData) ==
  [id |-> len + 2, type |-> "ai", content |-> processedData.response,
   processedInfo |-> processedData.extractedData]

\* a processMessage call waiting for the timer of simulateAIProcessing
Waiting(len, text) == [len |-> len, text |-> text, live |-> TRUE]

SendEvent(busy, started) == [k |-> "send", busy |-> busy, started |-> started]
ReplyEvent(live) == [k |-> "reply", live |-> live]

\* Nav or Landing's chat button: AIAssistant is rendered with a new AIChatbot
OpenAssistant ==
  /\ Quiet
  /\ active = "landing"
  /\ active' = "ai-assistant"
  /\ chatbot' = NewBot
  /\ chat' = NewChat
  /\ ev' = NoEvent
  /\ UNCHANGED <<storeVars, extractVars, tourVars, pending,
                 aiProcessedData, dash, tasks, events>>

\* Nav, Home: the AIChatbot is unmounted, and what its pending calls set
\* after that is lost
LeaveAssistant ==
  /\ Quiet
  /\ active = "ai-assistant"
  /\ active' = "landing"
  /\ chatbot' = NoBot
  /\ chat' = NewChat
  /\ pending' = [i \in DOMAIN pending |-> [pending[i] EXCEPT !.live = FALSE]]
  /\ ev' = NoEvent
  /\ UNCHANGED <<storeVars, extractVars, tourVars,
                 aiProcessedData, dash, tasks, events>>

\* onChange of the input, which is disabled while isProcessing
TypeInput(text) ==
  /\ Quiet
  /\ active = "ai-assistant"
  /\ ~chat.isProcessing
  /\ text # chatbot.input
  /\ chatbot' = [chatbot EXCEPT !.input = text]
  /\ ev' = NoEvent
  /\ UNCHANGED <<storeVars, extractVars, tourVars, pending,
                 active, aiProcessedData, dash, chat, tasks, events>>

\* the Send button, which Button never disables: handleSubmit calls
\* processMessage(input)
ClickSend ==
  /\ Quiet
  /\ active = "ai-assistant"
  /\ LET p == processMessage(chatbot, chat.isProcessing, chatbot.input)
     IN /\ p.started => (events < MaxEvents /\ Len(pending) < MaxTasks)
        /\ chatbot' = [messages |-> p.messages, input |-> p.input]
        /\ chat' = [isProcessing |-> p.isProcessing]
        /\ pending' = IF p.started
                      THEN Append(pending, Waiting(Len(chatbot.messages),
                                                   chatbot.input))
                      ELSE pending
        /\ events' = IF p.started THEN events + 1 ELSE events
        /\ ev' = SendEvent(chat.isProcessing, p.started)
  /\ UNCHANGED <<storeVars, extractVars, tourVars,
                 active, aiProcessedData, dash, tasks>>

\* processMessage after its await, without its last statement
TimerFires_NoReset(i, pick) ==
  /\ Quiet
  /\ i \in DOMAIN pending
  /\ LET w == pending[i]
         processedData == simulateAIProcessing(w.text, pick)
     IN /\ IF w.live
           THEN chatbot' = [chatbot EXCEPT !.messages =
                              Append(@, aiMessage(w.len, processedData))]
           ELSE UNCHANGED chatbot
        /\ ev' = ReplyEvent(w.live)
  /\ pending' = RemoveAt(pending, i)
  /\ UNCHANGED <<storeVars, extractVars, tourVars, chat,
                 active, aiProcessedData, dash, tasks, events>>

\* the timer of simulateAIProcessing fires: the reply is added, onProcess
\* (a console.log in AIAssistant) is called and isProcessing is reset
TimerFires(i, pick) ==
  /\ Quiet
  /\ i \in DOMAIN pending
  /\ LET w == pending[i]
         processedData == simulateAIProcessing(w.text, pick)
     IN /\ IF w.live
           THEN /\ chatbot' = [chatbot EXCEPT !.messages =
                                 Append(@, aiMessage(w.len, processedData))]
                /\ chat' = [isProcessing |-> FALSE]
           ELSE UNCHANGED <<chatbot, chat>>
        /\ ev' = ReplyEvent(w.live)
  /\ pending' = RemoveAt(pending, i)
  /\ UNCHANGED <<storeVars, extractVars, tourVars,
                 active, aiProcessedData, dash, tasks, events>>

\* the local build, where the chat of AIAssistant is the same as in the
\* remote one: it calls no store function
InitChat == InitApp /\ env.VITE_BACKEND = ""

NextChat ==
  \/ \E ok \in BOOLEAN : SeedLoad(ok)
  \/ \E ok \in BOOLEAN : SeedUpsert(ok)
  \/ OpenAssistant
  \/ LeaveAssistant
  \/ \E text \in ChatInputs : TypeInput(text)
  \/ ClickSend
  \/ \E i \in 1..MaxTasks, pick \in 1..Len(responses) : TimerFires(i, pick)

SpecChat == InitChat /\ [][NextChat]_vars

\* every timer that was set fires
SpecChatFair ==
  SpecChat
  /\ WF_vars(\E i \in 1..MaxTasks, pick \in 1..Len(responses) :
               TimerFires(i, pick))

\* ------------------------------------------------------- date selection
\* A day view at rest in the remote build on the second day: seedIfEmpty ran
\* on both days, and a chat message of the second day was saved into its
\* record. It is the state the application is in after the page is loaded on
\* day 1 and again on day 2, Dashboard is opened and a message is sent; the
\* other day may then have been selected and read.
WakeDelta == simulateAIProcessing("wake 7:30 am gym", 1).extractedData

SelectStore ==
  Put(Put(<<>>, 1, SeedRecord), 2, onProcess(SeedRecord, WakeDelta))

InitSelect ==
  /\ env = [VITE_BACKEND |-> "supabase", VITE_SUPABASE_URL |-> "set",
            VITE_SUPABASE_KEY |-> "set"]
  /\ consts = ModuleConsts(env)
  /\ localStorage = RawMissing
  /\ remote = SelectStore
  /\ today = 2
  /\ net = TRUE
  /\ seed = [pc |-> "done", d |-> 2, ls0 |-> RawMissing,
             rem0 |-> Put(<<>>, 1, SeedRecord)]
  /\ last = NoCall
  /\ prev = NoCall
  /\ calls = 0
  /\ active = "dashboard"
  /\ aiProcessedData = WakeDelta
  /\ dash \in {[mounted |-> TRUE, date |-> d, data |-> SelectStore[d],
                 all |-> JObj(SelectStore), loading |-> FALSE,
                 form |-> NewForm(SeedRecord)] : d \in {1, 2}}
  /\ chat = NewChat
  /\ tasks = <<>>
  /\ events = 0
  /\ ev = NoEvent
  /\ input = ""
  /\ result = NoResult
  /\ earlier = NoResult
  /\ isTouring = FALSE
  /\ tourStep = 0
  /\ chatbot = NoBot
  /\ pending = <<>>

\* dates are selected, and the reads of the date effect return in any order
NextSelect ==
  \/ \E d \in Dates : SelectDate(d)
  \/ \E i \in 1..MaxTasks, ok \in BOOLEAN : DateRead(i, ok)
  \/ \E e \in FormEdits : EditForm(e[1], e[2])
  \/ ClickReset

SpecSelect == InitSelect /\ [][NextSelect]_vars

\* ------------------------------------------------------------ properties
\* the records held by a well-formed local storage item
LocalDays(ls) ==
  IF ls.kind = "json" /\ ls.val.t = "object" THEN ls.val.days ELSE <<>>

\* the record of date d in the store that served call e (local storage when
\* the backend is local or the remote request failed), {} when it has none
StoredFor(e, ls, rem, d) ==
  IF UseRemote /\ ~e.failed THEN GetOrEmpty(rem, d)
  ELSE GetOrEmpty(LocalDays(ls), d)

Contains(rec, p) ==
  /\ rec # Null
  /\ \A f \in DOMAIN p : f \in DOMAIN rec /\ rec[f] = p[f]

\* C1: after upsertDay(d, p1) and then upsertDay(d, p2), on either backend
\* and with no remote failure, the stored record of d has every field of
\* the shallow merge of p1 and p2 with its value (p2 wins, the fields given
\* only in p1 are kept), and the second call returns the stored record.
C1_UpsertMerges ==
  (/\ last.op = "upsertDay" /\ prev.op = "upsertDay"
   /\ last.date = prev.date
   /\ ~prev.failed /\ ~last.failed)
  => LET stored == StoredFor(last, localStorage, remote, last.date)
     IN /\ ~last.threw
        /\ Contains(stored, Merge(prev.data, last.data))
        /\ last.ret = stored

\* C2: readDay(d) issued right after upsertDay(d, p) returned yields a
\* record that has every field of p with p's value, on either backend and
\* whichever remote calls fail.
C2_ReadAfterWrite ==
  (/\ last.op = "readDay" /\ prev.op = "upsertDay"
   /\ last.date = prev.date)
  => (~last.threw /\ Contains(last.ret, prev.data))

C4_NeverThrows == ~last.threw /\ seed.pc # "threw"

\* C5: readDay of a date that was never upserted returns null, and readDay
\* right after upsertDay(d, {}) returns a record (the empty one when d had
\* none), not null.
C5_AbsenceDistinct ==
  /\ (/\ last.op = "readDay"
      /\ last.date \notin DOMAIN LocalDays(last.lsBefore)
      /\ last.date \notin DOMAIN last.remBefore)
     => (~last.threw /\ last.ret = Null)
  /\ (/\ last.op = "readDay" /\ prev.op = "upsertDay"
      /\ last.date = prev.date /\ prev.data = EmptyObj)
     => (/\ ~last.threw
         /\ last.ret # Null
         /\ (/\ prev.date \notin DOMAIN LocalDays(prev.lsBefore)
             /\ prev.date \notin DOMAIN prev.remBefore)
            => last.ret = EmptyObj)

\* C6: a seedIfEmpty that starts while the store of the configured backend
\* holds a record leaves every record of that store as it was, whichever
\* remote calls fail.
C6_SeedOnlyWhenEmpty ==
  last.op = "seedIfEmpty" =>
    IF UseRemote
    THEN DOMAIN last.remBefore # {} => remote = last.remBefore
    ELSE DOMAIN LocalDays(last.lsBefore) # {}
           => LocalDays(localStorage) = LocalDays(last.lsBefore)

\* C7: a request is sent to the remote backend only if VITE_BACKEND is
\* "supabase" in some letter case and both the URL and the key are set;
\* otherwise the remote table is never touched.
C7_RemoteOnlyWhenConfigured ==
  LET configured ==
        /\ env.VITE_BACKEND \in {"supabase", "SUPABASE", "Supabase"}
        /\ env.VITE_SUPABASE_URL # ""
        /\ env.VITE_SUPABASE_KEY # ""
  IN /\ net => configured
     /\ ~configured => remote = <<>>

\* the remote backend was used with an upper-case VITE_BACKEND
C7_Witness ==
  /\ net /\ env.VITE_BACKEND = "SUPABASE" /\ DOMAIN remote # {}

\* the notes stored for date d in a table of day records, "" when none
NotesOf(days, d) ==
  IF d \in DOMAIN days /\ "notes" \in DOMAIN days[d] THEN days[d].notes
  ELSE ""

IsPrefix(a, b) == Len(a) <= Len(b) /\ SubSeq(b, 1, Len(a)) = a

\* record rec holds what was extracted from a message
HoldsDelta(rec, delta) ==
  /\ "wakeTime" \in DOMAIN delta.habits =>
       Truthy(rec, "wakeTime") /\ rec.wakeTime = delta.habits.wakeTime
  /\ "workoutIntended" \in DOMAIN delta.habits =>
       Truthy2(rec, "workout", "status") /\ rec.workout.status = "intended"
  /\ delta.mood # "neutral" =>
       Truthy(rec, "mood") /\ rec.mood = delta.mood
  /\ delta.insights # <<>> =>
       Truthy(rec, "notes") /\ includes(rec.notes, join(delta.insights))

EmptyDelta(delta) ==
  delta.habits = EmptyObj /\ delta.mood = "neutral" /\ delta.insights = <<>>

\* C8: when a chat message has been processed, in the Dashboard chat or in
\* the AI Assistant view, what was extracted from it (wake time, workout
\* intent, non-neutral mood, insights) is in the stored record of the date.
C8_ChatDeltaStored ==
  (ev.k = "chat" /\ ~EmptyDelta(ev.delta))
  => \/ HoldsDelta(GetOrEmpty(LocalDays(localStorage), ev.date), ev.delta)
     \/ HoldsDelta(GetOrEmpty(remote, ev.date), ev.delta)

\* a step in which the saveDay of a Quick Capture or of a chat extraction
\* writes to the store
NotesWrite ==
  \E i \in DOMAIN tasks, ok \in BOOLEAN :
    /\ tasks[i].k = "save"
    /\ tasks[i].origin \in {"capture", "chat"}
    /\ SaveUpsert(i, ok)

\* C9: a write of a Quick Capture or of a chat extraction never shortens or
\* rewrites the stored notes of a date: the notes held before the write are
\* a prefix of the notes held after it.
C9_NotesAppendOnly ==
  [][NotesWrite =>
       \A d \in Dates :
         /\ IsPrefix(NotesOf(LocalDays(localStorage), d),
                     NotesOf(LocalDays(localStorage'), d))
         /\ IsPrefix(NotesOf(remote, d), NotesOf(remote', d))]_vars

\* C10: when the Today button was pressed, readDay found no record for
\* today and the handler has finished, a record keyed by that date exists.
C10_TodayCreatesRecord ==
  ev.k = "today" =>
    ev.d \in (DOMAIN LocalDays(localStorage)) \cup (DOMAIN remote)

\* --------------------------------------------- properties of the extractor
\* the input contains one of the keywords, letter case put aside
LowerTyped == [text \in Typed(MaxWords) |-> toLowerCase(text)]

HasAny(keywords) == \E k \in keywords : includes(LowerTyped[input], k)

extracted == result.out.extractedData

\* C14: simulateAIProcessing resolves for every text, to a result whose
\* fields are all there (empty or neutral when nothing matches), and two
\* runs on one text give equal extractedData whichever response is picked.
C14_ExtractTotalDeterministic ==
  /\ result.done =>
       /\ DOMAIN extracted = {"tasks", "habits", "mood", "insights",
                              "paraCategory", "scheduledItems"}
       /\ result.out.response \in {responses[i] : i \in DOMAIN responses}
       /\ input = "" => extracted = NewExtractedData
  /\ (result.done /\ earlier.done) =>
       extracted = earlier.out.extractedData

\* two runs that picked different responses for a text with matches
C14_Witness ==
  /\ result.done /\ earlier.done
  /\ result.out.response # earlier.out.response
  /\ extracted.insights # <<>>

\* C15: for "I woke up at 7:30 am" the result has a habits.wakeTime that
\* holds the time of the text, and an insight that mentions it.
C15_WokeExample ==
  (input = "I woke up at 7:30 am" /\ result.done) =>
    /\ "wakeTime" \in DOMAIN extracted.habits
    /\ includes(extracted.habits.wakeTime, "7:30")
    /\ \E i \in DOMAIN extracted.insights :
         includes(extracted.insights[i], "7:30")

NegativeWords == {"stressed", "overwhelmed", "tired"}
PositiveWords == {"excited", "great", "awesome"}

\* C16: mood is low when the text has a negative keyword (also next to a
\* positive one), high when it has a positive keyword and no negative one,
\* neutral otherwise; "had a great workout, feeling excited" gives
\* workoutIntended and mood high.
C16_MoodPrecedence ==
  result.done =>
    /\ extracted.mood = IF HasAny(NegativeWords) THEN "low"
                        ELSE IF HasAny(PositiveWords) THEN "high"
                        ELSE "neutral"
    /\ input = "had a great workout, feeling excited" =>
         /\ "workoutIntended" \in DOMAIN extracted.habits
         /\ extracted.habits.workoutIntended = TRUE
         /\ extracted.mood = "high"

\* a text with a positive and a negative keyword was processed
C16_Witness ==
  /\ result.done /\ HasAny(NegativeWords) /\ HasAny(PositiveWords)
  /\ extracted.mood = "low"

LearnWords == {"learn", "study", "research"}
ProjectWords == {"project", "deadline", "deliver"}

\* C17: paraCategory is Projects when the text has a project keyword (also
\* next to a learning keyword), Resources when it has a learning keyword
\* only, unset otherwise; "need to finish the report, deadline project"
\* gives a task of category Projects and paraCategory Projects.
C17_ParaCategoryLastWins ==
  result.done =>
    /\ extracted.paraCategory =
         IF HasAny(ProjectWords) THEN "Projects"
         ELSE IF HasAny(LearnWords) THEN "Resources"
         ELSE NullString
    /\ input = "need to finish the report, deadline project" =>
         /\ \E i \in DOMAIN extracted.tasks :
              extracted.tasks[i].category = "Projects"
         /\ extracted.paraCategory = "Projects"

\* a text with a learning and a project keyword was processed
C17_Witness ==
  /\ result.done /\ HasAny(LearnWords) /\ HasAny(ProjectWords)
  /\ extracted.paraCategory = "Projects"

TaskWords == {"task", "todo", "need to"}

\* position in the text of the first occurrence of keyword k, 0 when none
FirstAt(s, k) ==
  LET at == {i \in 1..(Len(s) - Len(k) + 1) : SubSeq(s, i, i + Len(k) - 1) = k}
  IN IF at = {} THEN 0 ELSE CHOOSE i \in at : \A j \in at : i <= j

\* C18: with a task keyword in the text, tasks has one entry for each verb
\* of the keyword list found in the text, in the order of the list, each of
\* category Projects; without a task keyword tasks is empty.
C18_TasksInListOrder ==
  result.done =>
    LET verbs == {i \in DOMAIN taskKeywords : HasAny({taskKeywords[i]})}
        \* the n-th verb present, counting in list order
        nth(n) == CHOOSE i \in verbs : Cardinality({j \in verbs : j <= i}) = n
    IN IF HasAny(TaskWords)
       THEN /\ Len(extracted.tasks) = Cardinality(verbs)
            /\ \A n \in DOMAIN extracted.tasks :
                 /\ extracted.tasks[n].text =
                      "Complete task related to: " \o taskKeywords[nth(n)]
                 /\ extracted.tasks[n].category = "Projects"
       ELSE extracted.tasks = <<>>

\* a text whose verbs come in another order than in the keyword list
C18_Witness ==
  /\ result.done /\ Len(extracted.tasks) >= 2
  /\ LET l == LowerTyped[input]
     IN \E a, b \in DOMAIN taskKeywords :
          /\ a < b
          /\ FirstAt(l, taskKeywords[b]) > 0
          /\ FirstAt(l, taskKeywords[b]) < FirstAt(l, taskKeywords[a])

WakeWords == {"wake", "morning"}

\* the string is a time literal: H:MM or HH:MM, or one or two digits, any
\* white space, and am or pm in any letter case
IsTimeLiteral(str) ==
  LET n == Len(str)
      digits(a, b) == \A i \in a..b : IsDigit(CharAt(str, i))
      hour == IF IsDigit(CharAt(str, 2)) THEN 2 ELSE 1
  IN /\ n >= 3
     /\ IsDigit(CharAt(str, 1))
     /\ \/ /\ n = hour + 3
           /\ CharAt(str, hour + 1) = ":"
           /\ digits(hour + 2, hour + 3)
        \/ /\ \A i \in (hour + 1)..(n - 2) : IsSpace(CharAt(str, i))
           /\ toLowerCase(SubSeq(str, n - 1, n)) \in {"am", "pm"}

\* the positions at which a time literal starts
TimeStarts(s) ==
  {i \in 1..Len(s) :
     /\ IsDigit(CharAt(s, i))
     /\ \E j \in i..Len(s) : IsTimeLiteral(SubSeq(s, i, j))}

\* C19: habits.wakeTime is there exactly when the text has a wake keyword
\* and a time literal; it is then the literal that starts first in the
\* text, and exactly one insight names it; otherwise no insight is on the
\* wake time.
C19_WakeTimeFirstLiteral ==
  (result.done /\ ~earlier.done) =>
    LET starts == TimeStarts(input)
        wake == {i \in DOMAIN extracted.insights :
                   includes(extracted.insights[i], "Wake time noted")}
    IN IF HasAny(WakeWords) /\ starts # {}
       THEN LET i == CHOOSE a \in starts : \A b \in starts : a <= b
            IN /\ "wakeTime" \in DOMAIN extracted.habits
               /\ \E j \in i..Len(input) :
                    /\ IsTimeLiteral(SubSeq(input, i, j))
                    /\ extracted.habits.wakeTime = SubSeq(input, i, j)
               /\ Cardinality(wake) = 1
               /\ \A n \in wake :
                    extracted.insights[n]
                      = "Wake time noted: " \o extracted.habits.wakeTime
       ELSE "wakeTime" \notin DOMAIN extracted.habits /\ wake = {}

\* a text with a wake keyword and two time literals was processed
C19_Witness ==
  /\ result.done /\ ~earlier.done
  /\ HasAny(WakeWords)
  /\ Cardinality(TimeStarts(input)) >= 2
  /\ "wakeTime" \in DOMAIN extracted.habits

\* --------------------------------------------- properties of the records
\* C12: on the local backend no step of the store takes a date out of the
\* set of dates that have a stored record.
C12_NeverDeleted ==
  [][~UseRemote =>
       DOMAIN LocalDays(localStorage) \subseteq DOMAIN LocalDays(localStorage')
    ]_vars

\* two dates are stored on the local backend, the older one written first
C12_Witness ==
  /\ ~UseRemote
  /\ last.op = "upsertDay" /\ prev.op = "upsertDay" /\ last.date # prev.date
  /\ {last.date, prev.date} \subseteq DOMAIN LocalDays(localStorage)

\* the call wrote to local storage: local backend, or remote request failed
WroteLocal(e) == e.op = "upsertDay" /\ ~e.threw /\ (~UseRemote \/ e.failed)

\* C13: an upsert on the local store is one step. Every change of local
\* storage merges the whole data of one call into the record of its date
\* and touches nothing else; the call returns the record it wrote; and
\* after two upserts of one date with disjoint fields that were in flight
\* together, the record has the fields of both (with their values when no
\* other upsert was made).
C13_UpsertAtomic ==
  /\ [][localStorage' # localStorage =>
          \E d \in Dates, p \in ConcPartials \cup {SeedRecord} :
            LET days == LocalDays(localStorage)
            IN LocalDays(localStorage')
                 = Put(days, d, Merge(GetOrEmpty(days, d), p))]_vars
  /\ [](WroteLocal(last) =>
          last.ret = Merge(GetOrEmpty(LocalDays(last.lsBefore), last.date),
                           last.data))
  /\ []((/\ ev.k = "upsert" /\ ev.overlapped
         /\ WroteLocal(last) /\ WroteLocal(prev)
         /\ last.date = prev.date
         /\ DOMAIN last.data \cap DOMAIN prev.data = {})
        => LET rec == GetOrEmpty(LocalDays(localStorage), last.date)
           IN /\ DOMAIN last.data \cup DOMAIN prev.data \subseteq DOMAIN rec
              /\ (calls = 2 /\ tasks = <<>>) =>
                   (Contains(rec, last.data) /\ Contains(rec, prev.data)))

\* two upserts of one date with disjoint fields overlapped and both reached
\* local storage, one of them through a failed remote request
C13_Witness ==
  /\ ev.k = "upsert" /\ ev.overlapped
  /\ WroteLocal(last) /\ WroteLocal(prev)
  /\ last.failed
  /\ last.date = prev.date
  /\ last.data # prev.data
  /\ DOMAIN last.data \cap DOMAIN prev.data = {}
  /\ calls = 2 /\ tasks = <<>>

\* the records held by the two stores
StoredRecords ==
  {LocalDays(localStorage)[d] : d \in DOMAIN LocalDays(localStorage)}
    \cup {remote[d] : d \in DOMAIN remote}

\* the time-of-day values of a record: wakeTime, the time of workout, lunch
\* and dinner, and the goals
TimeValues(rec) ==
  (IF "wakeTime" \in DOMAIN rec THEN {rec.wakeTime} ELSE {})
    \cup UNION {IF f \in DOMAIN rec /\ "time" \in DOMAIN rec[f]
                THEN {rec[f].time} ELSE {} : f \in {"workout", "lunch", "dinner"}}
    \cup (IF "goals" \in DOMAIN rec
          THEN {rec.goals[g] : g \in DOMAIN rec.goals} ELSE {})

\* str is two digits, a colon and two digits, the hour in 00..23 and the
\* minute in 00..59
IsHHMM(str) ==
  /\ Len(str) = 5
  /\ \/ includes("01", SubSeq(str, 1, 1)) /\ IsDigit(SubSeq(str, 2, 2))
     \/ SubSeq(str, 1, 1) = "2" /\ includes("0123", SubSeq(str, 2, 2))
  /\ SubSeq(str, 3, 3) = ":"
  /\ includes("012345", SubSeq(str, 4, 4))
  /\ IsDigit(SubSeq(str, 5, 5))

\* C11: in every reachable state, every time-of-day value held by a stored
\* record (wakeTime, the time of workout, lunch and dinner, the goals) that
\* is not empty is an HH:MM 24-hour string; no 12-hour or unpadded literal
\* is stored.
C11_TimesAreHHMM ==
  \A rec \in StoredRecords : \A v \in TimeValues(rec) : v = "" \/ IsHHMM(v)

\* C20: in every reachable state, the workout.status of a stored record is
\* one of pending, done, skipped, intended and its mood is one of low,
\* neutral, high.
C20_StatusAndMoodInRange ==
  \A rec \in StoredRecords :
    /\ ("workout" \in DOMAIN rec /\ "status" \in DOMAIN rec.workout)
         => rec.workout.status \in {"pending", "done", "skipped", "intended"}
    /\ "mood" \in DOMAIN rec => rec.mood \in {"low", "neutral", "high"}

\* a Quick Edit save has finished after a chat merge: a stored record holds
\* a mood and a workout status
C20_Witness ==
  /\ ev.k = "edit"
  /\ \E rec \in StoredRecords :
       /\ "mood" \in DOMAIN rec
       /\ "workout" \in DOMAIN rec /\ "status" \in DOMAIN rec.workout

\* C25: the two backends are never reconciled. A successful remote upsert
\* leaves local storage as it was, an upsert that fell back after a remote
\* failure leaves the remote table as it was, and readDay and loadAllDays
\* write to neither store.
C25_NoReconciliation ==
  /\ (last.op = "upsertDay" /\ UseRemote /\ ~last.failed)
       => localStorage = last.lsBefore
  /\ (last.op = "upsertDay" /\ last.failed) => remote = last.remBefore
  /\ last.op \in {"readDay", "loadAllDays"}
       => (localStorage = last.lsBefore /\ remote = last.remBefore)

\* a remote upsert succeeded after an upsert of the same date had fallen
\* back: the two stores hold different records of that date
C25_Witness ==
  /\ last.op = "upsertDay" /\ UseRemote /\ ~last.failed
  /\ prev.op = "upsertDay" /\ prev.failed /\ prev.date = last.date
  /\ last.date \in DOMAIN LocalDays(localStorage)
  /\ LocalDays(localStorage)[last.date] # remote[last.date]

\* a step in which the saveDay of a chat message that matched no rule
\* calls upsertDay
NoMatchWrite ==
  \E i \in DOMAIN tasks, ok \in BOOLEAN :
    /\ tasks[i].k = "save"
    /\ tasks[i].origin = "chat"
    /\ EmptyDelta(tasks[i].extracted)
    /\ SaveUpsert(i, ok)

\* C29: processing a chat message in which no rule matches (no habit, neutral
\* mood, no insight) leaves the day store as it was: no record is created
\* and no field of a stored record changes.
C29_NoMatchLeavesStore ==
  [][NoMatchWrite => UNCHANGED <<localStorage, remote>>]_vars

\* C22: when the Dashboard is the active view and every store call has
\* completed (the seed has finished and no handler is in flight), the
\* Dashboard has left the loading state and shows the day view, the one
\* that holds the P.A.R.A. Organization section, whatever the store holds
\* for today.
C22_DashboardShowsDayView ==
  (active = "dashboard" /\ SeedFinished /\ tasks = <<>>)
  => FullView(dash, active, aiProcessedData)

\* the form of Quick Edit holds the values it takes from the stored record
\* of a date that is not the selected one, these not being the values it
\* takes from the record of the selected date
StaleForm ==
  /\ FullView(dash, active, aiProcessedData)
  /\ \E days \in {LocalDays(localStorage), remote} :
       \E a \in DOMAIN days \ {dash.date} :
         /\ Truthy(days[a], "notes")
         /\ dash.form = NewForm(days[a])
  /\ \A days \in {LocalDays(localStorage), remote} :
       dash.form # NewForm(GetOrEmpty(days, dash.date))

\* C28: Save Day in Quick Edit writes to the selected date only values that
\* belong to it: after the selected date changed from A to B, a Save Day
\* with no field edited never stores into B's record the wakeTime, meals,
\* workout and notes read from A's record.
C28_SaveDayKeepsToDate ==
  [][SubmitForm => ~StaleForm]_vars

\* C24: starting the tour opens the overlay on step 0, completing it closes
\* the overlay with the step back at 0, and the step shown is always one of
\* the steps: Next at the last step and Previous at step 0 change nothing
C24_TourStepInRange ==
  /\ [](tourStep \in 0..(Len(TOUR_STEPS) - 1))
  /\ [][(~isTouring /\ isTouring') => (tourStep' = 0)]_vars
  /\ [][StartTour => (isTouring' /\ tourStep' = 0)]_vars
  /\ [][EndTour => (~isTouring' /\ tourStep' = 0)]_vars
  /\ [][(NextTourStep /\ tourStep = LastStep)
          => UNCHANGED <<tourStep, isTouring, active>>]_vars
  /\ [][(PrevTourStep /\ tourStep = 0)
          => UNCHANGED <<tourStep, isTouring, active>>]_vars

\* the tour was taken to its last step and completed
C24_Witness == ev = TourEvent("end") /\ ~isTouring /\ tourStep = 0

\* C23: once the tour was advanced past its first step, the overlay shows
\* Complete Tour
C23_CompleteTourAfterNext ==
  (isTouring /\ tourStep > 0) => CompleteTourShown

\* the views in which the element a step points at is rendered: the Nav
\* button of the assistant in every view, the P.A.R.A. section and the
\* summary of the day in Dashboard
TargetViews(step) ==
  IF StepAt(step).target = "[data-tour='ai-assistant']" THEN Views
  ELSE IF StepAt(step).target \in {"[data-tour='para-dashboard']",
                                   "[data-tour='daily-tracking']"}
  THEN {"dashboard"}
  ELSE Views

\* C30: after Next, the active view is one that holds the target of the
\* step now shown
C30_NextShowsTargetView ==
  [][NextTourStep => (active' \in TargetViews(tourStep'))]_vars

\* the ids of the messages the chat shows
MessageIds == {chatbot.messages[i].id : i \in DOMAIN chatbot.messages}

LiveWaiting == {i \in DOMAIN pending : pending[i].live}

\* C27: a chat processes at most one message at a time: a Send pressed while
\* isProcessing adds no message and starts no extraction, and the ids of the
\* messages are pairwise distinct
C27_OneMessageAtATime ==
  /\ [](Cardinality(LiveWaiting) <= 1)
  /\ [](chatbot # NoBot =>
          Cardinality(MessageIds) = Len(chatbot.messages))
  /\ [][(ClickSend /\ chat.isProcessing)
          => (chatbot'.messages = chatbot.messages /\ pending' = pending)]_vars

\* Send was pressed while a message was being processed
C27_Witness ==
  /\ ev = SendEvent(TRUE, FALSE)
  /\ chat.isProcessing
  /\ Len(chatbot.messages) >= 4

\* the last message the chat shows
LastMessage == chatbot.messages[Len(chatbot.messages)]

\* C21: from the submission of a non-blank message the chat is processing
\* until the timer of the simulated processing fires; processing always ends,
\* and when it ends on the chat shown, one assistant message has been added
\* right after the user's
C21_ProcessingEnds ==
  /\ [](chatbot # NoBot =>
          (chat.isProcessing <=> LastMessage.type = "user"))
  /\ [](chat.isProcessing => Cardinality(LiveWaiting) = 1)
  /\ [][(chatbot # NoBot /\ chatbot' # NoBot /\ ~chat.isProcessing
          /\ chat'.isProcessing)
          => (/\ Len(chatbot'.messages) = Len(chatbot.messages) + 1
              /\ chatbot'.messages[Len(chatbot'.messages)].type = "user"
              /\ trim(chatbot'.messages[Len(chatbot'.messages)].content) # "")
       ]_vars
  /\ [][(chat.isProcessing /\ ~chat'.isProcessing /\ chatbot' # NoBot)
          => (/\ Len(chatbot'.messages) = Len(chatbot.messages) + 1
              /\ SubSeq(chatbot'.messages, 1, Len(chatbot.messages))
                   = chatbot.messages
              /\ chatbot'.messages[Len(chatbot'.messages)].type = "ai"
              /\ chatbot'.messages[Len(chatbot'.messages)].content
                   \in {responses[i] : i \in DOMAIN responses})]_vars
  /\ (chat.isProcessing ~> ~chat.isProcessing)

\* the reply to a second message has been shown
C21_Witness ==
  /\ ev = ReplyEvent(TRUE)
  /\ chatbot # NoBot
  /\ ~chat.isProcessing
  /\ Len(chatbot.messages) = 5
  /\ chatbot.messages[4].type = "user"
  /\ LastMessage.type = "ai"

\* C26: once no read is pending, the Dashboard shows the record that the
\* store holds for the selected date, or an empty one (the store being the
\* remote table, or local storage when a read fell back to it)
C26_DisplayedIsSelected ==
  (dash.mounted /\ tasks = <<>>)
    => dash.data \in {GetOrEmpty(remote, dash.date),
                      GetOrEmpty(LocalDays(localStorage),
                                 dash.date)}

====
